---- MODULE Spec2Model ----
(***************************************************************************)
(* A model of cheerio-select's query engine (src/src/index.ts) and of its  *)
(* caches (src/src/cache.ts).                                              *)
(*                                                                         *)
(* The document is a fixed finite tree.  Nodes are numbered in document    *)
(* (pre-order) order, so that "a precedes b in the document" is a < b.     *)
(* Selectors are sequences of tokens as css-what produces them.  The       *)
(* collaborators the engine calls (css-select's compileToken and           *)
(* prepareContext, domutils' find, removeSubsets and uniqueSort) are       *)
(* modelled by what they compute on this tree.                             *)
(***************************************************************************)
EXTENDS Integers, Sequences, FiniteSets, TLC

VARIABLES
    pc,                     \* "idle" before the call, "done" after it
    call,                   \* the call that was made: operation and arguments
    returned,               \* what the call returned
    compiledSelectorCache,  \* cache.ts: selector-group object -> key -> query
    matchResultCache,       \* cache.ts: insertion-ordered key -> boolean
    relationshipCache       \* cache.ts: element -> element -> boolean

vars == <<pc, call, returned, compiledSelectorCache, matchResultCache, relationshipCache>>

(***************************************************************************)
(* Bounds of the model.                                                    *)
(***************************************************************************)
\* Finite result limits run over 1..MaxLimit; Infinity is always included.
MaxLimit == 2
\* Selector-group objects that stay reachable and can be looked up again.
MaxSelObjects == 1

\* JavaScript's Infinity: larger than every length and count of the model.
Infinity == 1000
\* parseInt's NaN.
NaN == [finite |-> FALSE, val |-> 0]
Num(n) == [finite |-> TRUE, val |-> n]

(***************************************************************************)
(* Sequence helpers (JavaScript Array methods).                            *)
(***************************************************************************)
Min(a, b) == IF a <= b THEN a ELSE b
Max(a, b) == IF a >= b THEN a ELSE b
Range(s) == {s[i] : i \in 1..Len(s)}
Includes(s, e) == \E i \in 1..Len(s) : s[i] = e
SomeIn(s, P(_)) == \E i \in 1..Len(s) : P(s[i])

\* Array.prototype.slice(start) / slice(start, end) with JavaScript's
\* treatment of negative and out-of-range indices (0-based, end exclusive).
SliceIdx(k, len) == IF k < 0 THEN Max(len + k, 0) ELSE Min(k, len)
Slice(s, start, end) ==
    LET a == SliceIdx(start, Len(s))
        b == SliceIdx(end, Len(s))
    IN  IF a >= b THEN <<>> ELSE SubSeq(s, a + 1, b)
SliceFrom(s, start) == Slice(s, start, Len(s))

RECURSIVE Flatten(_)
Flatten(ss) == IF ss = <<>> THEN <<>> ELSE Head(ss) \o Flatten(Tail(ss))

(***************************************************************************)
(* The document.                                                           *)
(*                                                                         *)
(*   0 #document                                                           *)
(*     1 <div id=a class=x>                                                *)
(*       2 <p class=x>                                                     *)
(*       3 #text                                                           *)
(*       4 <div class=y>                                                   *)
(*         5 <p id=b>                                                      *)
(*       6 <p class=y>                                                     *)
(*       7 <p>                                                             *)
(*     8 <P class=x>       (upper-case name, as an XML parse keeps it)     *)
(***************************************************************************)
NoNode == -1
Nodes == 0..8
NodeType == <<"root", "tag", "tag", "text", "tag", "tag", "tag", "tag", "tag">>
NodeName == <<"", "div", "p", "", "div", "p", "p", "p", "P">>
NodeId == <<"", "a", "", "", "", "b", "", "", "">>
NodeClass == <<{}, {"x"}, {"x"}, {}, {"y"}, {}, {"y"}, {}, {"x"}>>
NodeParent == <<NoNode, 0, 1, 1, 1, 4, 1, 1, 0>>
NodeChildren == << <<1, 8>>, <<2, 3, 4, 6, 7>>, <<>>, <<>>, <<5>>, <<>>, <<>>, <<>>, <<>> >>

\* String.prototype.toLowerCase on the names of the model.
ToLowerCase(s) == IF s = "P" THEN "p" ELSE IF s = "DIV" THEN "div" ELSE s

isTag(n) == n # NoNode /\ NodeType[n + 1] = "tag"
getName(n) == NodeName[n + 1]
getParent(n) == NodeParent[n + 1]
getChildren(n) == NodeChildren[n + 1]
hasChildren(n) == NodeType[n + 1] \in {"root", "tag"}
Elements == {n \in Nodes : isTag(n)}
FilterTags(s) == SelectSeq(s, isTag)

\* domutils getSiblings: the children of the parent (the node alone if it has none).
getSiblings(n) == IF getParent(n) = NoNode THEN <<n>> ELSE getChildren(getParent(n))
IndexOf(s, e) == IF Includes(s, e) THEN CHOOSE i \in 1..Len(s) : s[i] = e /\ \A j \in 1..(i - 1) : s[j] # e ELSE 0

\* css-select getElementParent: the parent if it is an element.
getElementParent(n) == IF isTag(getParent(n)) THEN getParent(n) ELSE NoNode

RECURSIVE Ancestors(_)
\* All ancestors of a node (node.parent, node.parent.parent, ...), as a set.
Ancestors(n) == IF getParent(n) = NoNode THEN {} ELSE {getParent(n)} \cup Ancestors(getParent(n))

RECURSIVE getDocumentRoot(_)
\* helpers.ts getDocumentRoot: walk .parent to the top.
getDocumentRoot(n) == IF getParent(n) = NoNode THEN n ELSE getDocumentRoot(getParent(n))

RECURSIVE Preorder(_)
RECURSIVE PreorderAll(_)
\* A node followed by its descendants, in document order.
Preorder(n) == <<n>> \o PreorderAll(getChildren(n))
PreorderAll(s) == IF s = <<>> THEN <<>> ELSE Preorder(Head(s)) \o PreorderAll(Tail(s))

\* domutils find(test, nodes, recurse = true, limit): depth-first over the
\* given nodes and their descendants, in the order given, stopping at limit.
DomFind(test(_), nodes, limit) ==
    LET all == SelectSeq(PreorderAll(nodes), test)
    IN  Slice(all, 0, limit)

RECURSIVE removeSubsetsFrom(_, _)
\* domutils removeSubsets: going from the end, drop a node that occurs
\* earlier in the array or has an ancestor in the array.
removeSubsetsFrom(s, idx) ==
    IF idx = 0 THEN s
    ELSE LET node == s[idx]
             dup == \E j \in 1..(idx - 1) : s[j] = node
             sub == \E a \in Ancestors(node) : Includes(s, a)
             s2 == IF dup \/ sub
                   THEN SubSeq(s, 1, idx - 1) \o SubSeq(s, idx + 1, Len(s))
                   ELSE s
         IN  removeSubsetsFrom(s2, idx - 1)
removeSubsets(s) == removeSubsetsFrom(s, Len(s))

\* css-select getNextSiblings: the element siblings after the node.
getNextSiblings(n) ==
    LET sibs == getSiblings(n)
        i == IndexOf(sibs, n)
    IN  IF i = 0 THEN <<>> ELSE FilterTags(SubSeq(sibs, i + 1, Len(sibs)))

\* css-select appendNextSiblings: the nodes, then each one's next siblings.
appendNextSiblings(s) == s \o Flatten([i \in 1..Len(s) |-> getNextSiblings(s[i])])

RECURSIVE SortedSeq(_)
\* The elements of a set of nodes in document order.
SortedSeq(S) ==
    IF S = {} THEN <<>>
    ELSE LET m == CHOOSE a \in S : \A b \in S : a <= b
         IN  <<m>> \o SortedSeq(S \ {m})

\* domutils uniqueSort: drop duplicates, sort by document position.
uniqueSort(s) == SortedSeq(Range(s))

(***************************************************************************)
(* Selector tokens (css-what's Selector), all of one record shape.         *)
(* data is a pseudo's argument: null, a string (num is what parseInt       *)
(* makes of a numeral; a "text" argument is not a numeral), or the nested  *)
(* selector list of :not.                                                  *)
(***************************************************************************)
NoData == [kind |-> "null", num |-> 0, sel |-> <<>>]
NumData(n) == [kind |-> "num", num |-> n, sel |-> <<>>]
TextData == [kind |-> "text", num |-> 0, sel |-> <<>>]
SelData(s) == [kind |-> "sel", num |-> 0, sel |-> s]

Tag(n) == [type |-> "tag", name |-> n, action |-> "", value |-> "", data |-> NoData]
Attribute(n, a, v) == [type |-> "attribute", name |-> n, action |-> a, value |-> v, data |-> NoData]
IdEquals(v) == Attribute("id", "equals", v)
ClassElement(v) == Attribute("class", "element", v)
Traversal(t) == [type |-> t, name |-> "", action |-> "", value |-> "", data |-> NoData]
Pseudo(n, d) == [type |-> "pseudo", name |-> n, action |-> "", value |-> "", data |-> d]

\* index.ts: the two synthetic tokens.
UNIVERSAL_SELECTOR == [type |-> "universal", name |-> "", action |-> "", value |-> "", data |-> NoData]
SCOPE_PSEUDO == Pseudo("scope", NoData)
\* css-select compile.ts: the tokens absolutize and compileToken insert.
DESCENDANT_TOKEN == Traversal("descendant")
FLEXIBLE_DESCENDANT_TOKEN == Traversal("_flexibleDescendant")

\* css-what isTraversal.
isTraversal(t) == t.type \in {"descendant", "child", "sibling", "adjacent", "_flexibleDescendant"}

\* parseInt(data, 10) of a pseudo's argument.
parseInt(d) == IF d.kind = "num" THEN Num(d.num) ELSE NaN

(***************************************************************************)
(* positionals.ts and helpers.ts (not among the sources; written from the  *)
(* specification's sections 3, 4.1 and 4.4).                               *)
(***************************************************************************)
filterNames == {"first", "last", "eq", "nth", "gt", "lt", "even", "odd"}

RECURSIVE isFilter(_)
\* A positional filter: one of the names, or a :not whose nested list holds one.
isFilter(t) ==
    /\ t.type = "pseudo"
    /\ \/ t.name \in filterNames
       \/ /\ t.name = "not"
          /\ t.data.kind = "sel"
          /\ \E i \in 1..Len(t.data.sel) :
                \E j \in 1..Len(t.data.sel[i]) : isFilter(t.data.sel[i][j])

HasFilter(rule) == SomeIn(rule, isFilter)
HasTraversal(rule) == SomeIn(rule, isTraversal)

\* groupSelectors: [plain, filtered], each in the order of the input.
groupSelectors(selectors) ==
    [plain |-> SelectSeq(selectors, LAMBDA r : ~HasFilter(r)),
     filtered |-> SelectSeq(selectors, HasFilter)]

\* getLimit: how many candidates the filter needs.
getLimit(filter, data, partLimit) ==
    LET num == parseInt(data)
    IN  CASE filter = "first" -> 1
          [] filter \in {"nth", "eq"} ->
                IF num.finite THEN (IF num.val >= 0 THEN num.val + 1 ELSE Infinity) ELSE 0
          [] filter = "lt" ->
                IF num.finite THEN (IF num.val >= 0 THEN Min(num.val, partLimit) ELSE Infinity) ELSE 0
          [] filter = "gt" -> IF num.finite THEN Infinity ELSE 0
          [] filter = "odd" -> IF partLimit = Infinity THEN Infinity ELSE 2 * partLimit
          [] filter = "even" -> IF partLimit = Infinity THEN Infinity ELSE 2 * partLimit - 1
          [] OTHER -> Infinity

(***************************************************************************)
(* Options, contexts and roots.                                            *)
(***************************************************************************)
\* A context or a root: absent, one node, or an array of nodes.
NoContext == [set |-> FALSE, isArray |-> FALSE, nodes |-> <<>>]
OneNode(n) == [set |-> TRUE, isArray |-> FALSE, nodes |-> <<n>>]
NodeArray(s) == [set |-> TRUE, isArray |-> TRUE, nodes |-> s]

\* boolbase.trueFunc, an absent rootFunc, and findFilterElements' closure
\* (el) => result.includes(el) over the array it closes over.
NoRootFunc == [kind |-> "undefined", nodes |-> <<>>]
TrueFunc == [kind |-> "trueFunc", nodes |-> <<>>]
MemberOf(s) == [kind |-> "includes", nodes |-> s]

NoPseudos == [set |-> FALSE, names |-> <<>>, impl |-> 0]

\* index.ts Options.  relativeSelector is "undefined", "true" or "false";
\* root is a node or NoNode; adapter is 0 (absent) or the identity of one.
MakeOptions(xmlMode, relativeSelector, context, root, rootFunc, pseudos, adapter) ==
    [xmlMode |-> xmlMode, relativeSelector |-> relativeSelector, context |-> context,
     root |-> root, rootFunc |-> rootFunc, pseudos |-> pseudos, adapter |-> adapter]
DefaultOptions == MakeOptions(FALSE, "undefined", NoContext, NoNode, NoRootFunc, NoPseudos, 0)

(***************************************************************************)
(* css-select: compiling a plain selector group to a predicate.            *)
(***************************************************************************)
\* compile.ts includesScopePseudo (no nested lists occur in plain rules here).
includesScopePseudo(t) == t.type = "pseudo" /\ t.name = "scope"

\* compile.ts absolutize, on one rule.
absolutizeRule(rule, hasContext) ==
    IF rule # <<>> /\ isTraversal(rule[1]) /\ rule[1].type # "descendant"
    THEN <<SCOPE_PSEUDO>> \o rule
    ELSE IF hasContext /\ ~SomeIn(rule, includesScopePseudo)
         THEN <<SCOPE_PSEUDO, DESCENDANT_TOKEN>> \o rule
         ELSE rule

\* compile.ts absolutize: hasContext holds when every context node is an
\* element with an element parent.
absolutize(token, context) ==
    LET hasContext == /\ context.set
                      /\ \A i \in 1..Len(context.nodes) :
                            isTag(context.nodes[i]) /\ isTag(getParent(context.nodes[i]))
    IN  [i \in 1..Len(token) |-> absolutizeRule(token[i], hasContext)]

\* compileToken's rewrite of ":scope <descendant>" for an array context.
flexRule(rule, isArrayContext) ==
    IF /\ Len(rule) >= 2
       /\ rule[1] = SCOPE_PSEUDO
       /\ isArrayContext
       /\ rule[2].type = "descendant"
    THEN [rule EXCEPT ![2] = FLEXIBLE_DESCENDANT_TOKEN]
    ELSE rule

\* compileToken(token, options, context): the compiled query, as the data
\* its closure holds.
compileToken(token, options, context) ==
    LET ctx == IF options.context.set THEN options.context ELSE context
        abs == IF options.relativeSelector # "false" THEN absolutize(token, ctx) ELSE token
    IN  [token |-> [i \in 1..Len(abs) |-> flexRule(abs[i], ctx.isArray)],
         context |-> ctx,
         rootFunc |-> options.rootFunc,
         xmlMode |-> options.xmlMode,
         shouldTestNextSiblings |->
            \E i \in 1..Len(abs) :
                /\ Len(abs[i]) >= 2
                /\ abs[i][1] = SCOPE_PSEUDO
                /\ ~(ctx.isArray /\ abs[i][2].type = "descendant")
                /\ abs[i][2].type \in {"adjacent", "sibling"}]

\* compileRules starts the chain at options.rootFunc ?? trueFunc.
RootFuncHolds(rf, el) == rf.kind = "includes" => Includes(rf.nodes, el)

RECURSIVE ElementAncestors(_)
\* The chain getElementParent walks.
ElementAncestors(n) ==
    IF getElementParent(n) = NoNode THEN {}
    ELSE {getElementParent(n)} \cup ElementAncestors(getElementParent(n))

\* The element siblings before a node, nearest last.
PrevElementSiblings(el) ==
    LET sibs == getSiblings(el)
        i == IndexOf(sibs, el)
    IN  FilterTags(SubSeq(sibs, 1, i - 1))

RECURSIVE MatchAt(_, _, _, _)
\* Whether el satisfies the tokens rule[1..i] of a compiled rule, the way
\* compileGeneralSelector chains them: token i is tested on el and hands on
\* to the tokens before it; before the first token stands rootFunc.
MatchAt(rule, i, el, q) ==
    IF i = 0 THEN RootFuncHolds(q.rootFunc, el)
    ELSE LET t == rule[i] IN
      CASE t.type = "tag" ->
             /\ getName(el) = (IF q.xmlMode THEN t.name ELSE ToLowerCase(t.name))
             /\ MatchAt(rule, i - 1, el, q)
        [] t.type = "attribute" ->
             /\ IF t.name = "id" THEN NodeId[el + 1] # "" /\ NodeId[el + 1] = t.value
                ELSE t.value \in NodeClass[el + 1]
             /\ MatchAt(rule, i - 1, el, q)
        [] t.type = "universal" -> MatchAt(rule, i - 1, el, q)
        [] t.type = "pseudo" /\ t.name = "scope" ->
             /\ IF ~q.context.set \/ q.context.nodes = <<>>
                THEN ~isTag(getParent(el))
                ELSE Includes(q.context.nodes, el)
             /\ MatchAt(rule, i - 1, el, q)
        [] t.type = "descendant" ->
             \E a \in ElementAncestors(el) : MatchAt(rule, i - 1, a, q)
        [] t.type = "_flexibleDescendant" ->
             \E a \in {el} \cup ElementAncestors(el) : MatchAt(rule, i - 1, a, q)
        [] t.type = "child" ->
             isTag(getParent(el)) /\ MatchAt(rule, i - 1, getParent(el), q)
        [] t.type = "sibling" ->
             LET prev == PrevElementSiblings(el)
             IN  \E j \in 1..Len(prev) : MatchAt(rule, i - 1, prev[j], q)
        [] t.type = "adjacent" ->
             LET prev == PrevElementSiblings(el)
             IN  prev # <<>> /\ MatchAt(rule, i - 1, prev[Len(prev)], q)
        [] OTHER -> FALSE

\* The compiled query applied to an element: some rule of the group matches.
Query(q, el) == \E r \in 1..Len(q.token) : MatchAt(q.token[r], Len(q.token[r]), el, q)

\* css-select prepareContext(elems, adapter, shouldTestNextSiblings).
prepareContext(root, shouldTestNextSiblings) ==
    LET elems == IF shouldTestNextSiblings
                 THEN NodeArray(appendNextSiblings(root.nodes))
                 ELSE root
    IN  IF elems.isArray THEN removeSubsets(elems.nodes) ELSE getChildren(elems.nodes[1])

(***************************************************************************)
(* cache.ts: the simple-selector tests.  Each returns the string the fast  *)
(* path searches for; "" stands for null (both are falsy to the caller).   *)
(***************************************************************************)
isSimpleIdSelector(selector) ==
    IF Len(selector) # 1 \/ Len(selector[1]) # 1 THEN ""
    ELSE LET sel == selector[1][1]
         IN  IF sel.type = "attribute" /\ sel.name = "id" /\ sel.action = "equals"
             THEN sel.value ELSE ""

isSimpleClassSelector(selector) ==
    IF Len(selector) # 1 \/ Len(selector[1]) # 1 THEN ""
    ELSE LET sel == selector[1][1]
         IN  IF sel.type = "attribute" /\ sel.name = "class" /\ sel.action = "element"
             THEN sel.value ELSE ""

isSimpleTagSelector(selector) ==
    IF Len(selector) # 1 \/ Len(selector[1]) # 1 THEN ""
    ELSE LET sel == selector[1][1]
         IN  IF sel.type = "tag" THEN sel.name ELSE ""

(***************************************************************************)
(* index.ts: the fast paths.  One loop serves the three functions, which   *)
(* differ only in the test applied to the popped node.                     *)
(***************************************************************************)
\* The test each fast path applies to a popped node.
FastTest(by, value, node) ==
    /\ isTag(node)
    /\ CASE by = "id" -> NodeId[node + 1] = value
         [] by = "class" -> NodeClass[node + 1] # {} /\ value \in NodeClass[node + 1]
         [] OTHER -> ToLowerCase(getName(node)) = ToLowerCase(value)

RECURSIVE FastLoop(_, _, _, _, _)
\* while (stack.length > 0 && results.length < limit): pop, test, push the
\* children in reverse.  The top of the stack is the last element.
FastLoop(stack, results, limit, by, value) ==
    IF stack = <<>> \/ Len(results) >= limit THEN results
    ELSE LET node == stack[Len(stack)]
             rest == SubSeq(stack, 1, Len(stack) - 1)
             hit == FastTest(by, value, node)
             results2 == IF hit THEN Append(results, node) ELSE results
             children == IF hasChildren(node) THEN getChildren(node) ELSE <<>>
             reversed == [i \in 1..Len(children) |-> children[Len(children) + 1 - i]]
         IN  IF hit /\ Len(results2) >= limit THEN results2
             ELSE FastLoop(rest \o reversed, results2, limit, by, value)

fastFindById(root, id, limit) == FastLoop(<<root>>, <<>>, limit, "id", id)

fastFindByClass(root, className, limit) == FastLoop(<<root>>, <<>>, limit, "class", className)

fastFindByTag(root, tagName, limit) == FastLoop(<<root>>, <<>>, limit, "tag", tagName)

(***************************************************************************)
(* index.ts: find, filterElements, getCacheKey and findElements.           *)
(***************************************************************************)
\* find(root, query, limit).  domutils' find returns after the push that
\* makes --limit <= 0, so a limit below 1 acts as 1.
find(root, query, limit) ==
    DomFind(LAMBDA node : isTag(node) /\ Query(query, node),
            prepareContext(root, query.shouldTestNextSiblings),
            Max(limit, 1))

\* filterElements(elements, sel, options): compileToken gets no context.
filterElements(elements, sel, options) ==
    LET els == FilterTags(elements.nodes)
        query == compileToken(sel, options, NoContext)
    IN  IF els = <<>> THEN els ELSE SelectSeq(els, LAMBDA el : Query(query, el))

RECURSIVE Join(_, _)
\* Array.prototype.join.
Join(parts, sep) ==
    IF parts = <<>> THEN ""
    ELSE IF Len(parts) = 1 THEN parts[1]
    ELSE parts[1] \o sep \o Join(Tail(parts), sep)

\* getCacheKey(options).
getCacheKey(options) ==
    LET keyParts ==
            (IF options.xmlMode THEN <<"xml">> ELSE <<>>)
         \o (IF options.relativeSelector # "undefined"
             THEN <<"rel:" \o options.relativeSelector>> ELSE <<>>)
         \o (IF options.pseudos.set
             THEN <<"pseudo:" \o Join(options.pseudos.names, ",")>> ELSE <<>>)
         \o (IF options.adapter # 0 THEN <<"adapter">> ELSE <<>>)
        joined == Join(keyParts, "|")
    IN  IF joined = "" THEN "default" ELSE joined

\* Map.prototype.get on a cache map (a sequence of [key, query] entries,
\* at most one per key); Len + 1 when the key is absent.
MapIndex(cacheMap, key) ==
    IF \E i \in 1..Len(cacheMap) : cacheMap[i].key = key
    THEN CHOOSE i \in 1..Len(cacheMap) : cacheMap[i].key = key
    ELSE Len(cacheMap) + 1

\* What findElements returns with the query it looked up or compiled: the
\* result of find, the cache map afterwards and the content of sel
\* afterwards (compileToken rewrites its argument).
findWithQuery(cacheMap, root, sel, limit, cacheKey, miss, query) ==
    [res |-> find(root, query, limit),
     general |-> TRUE,
     map |-> IF miss THEN Append(cacheMap, [key |-> cacheKey, query |-> query])
             ELSE cacheMap,
     sel |-> IF miss THEN query.token ELSE sel]

\* The cache lookup with the place of the key in the map: compileToken on a
\* miss, the cached query on a hit.
findWithKey(cacheMap, root, sel, options, limit, cacheKey, at) ==
    findWithQuery(cacheMap, root, sel, limit, cacheKey, at > Len(cacheMap),
                  IF at > Len(cacheMap) THEN compileToken(sel, options, root)
                  ELSE cacheMap[at].query)

\* findElements' general path (the cache lookup, compileToken on a miss,
\* find), given the map the compiled selector cache holds for the object
\* sel (empty when it holds none).
findElementsGeneral(cacheMap, root, sel, options, limit) ==
    findWithKey(cacheMap, root, sel, options, limit, getCacheKey(options),
                MapIndex(cacheMap, getCacheKey(options)))

\* findElements(root, sel, options, limit): a fast path for a single root
\* and a simple selector, the general path otherwise.
findElements(cacheMap, root, sel, options, limit) ==
    LET simpleId == IF root.isArray THEN "" ELSE isSimpleIdSelector(sel)
        simpleClass == IF root.isArray THEN "" ELSE isSimpleClassSelector(sel)
        simpleTag == IF root.isArray THEN "" ELSE isSimpleTagSelector(sel)
        fast(r) == [res |-> r, general |-> FALSE, map |-> cacheMap, sel |-> sel]
    IN  IF simpleId # "" THEN fast(fastFindById(root.nodes[1], simpleId, limit))
        ELSE IF simpleClass # "" THEN fast(fastFindByClass(root.nodes[1], simpleClass, limit))
        ELSE IF simpleTag # "" THEN fast(fastFindByTag(root.nodes[1], simpleTag, limit))
        ELSE findElementsGeneral(cacheMap, root, sel, options, limit)

\* The cache entry a findElements call made for a new object, as a log.
NewEntry(r) ==
    [res |-> r.res,
     log |-> IF r.general THEN <<[sel |-> r.sel, map |-> r.map]>> ELSE <<>>]

\* findElements on a selector group allocated for this call (parse's
\* result, [sub], [remainingSelector]): the cache holds nothing for it.
\* log lists the objects the call added to the compiled selector cache.
findElementsNew(root, sel, options, limit) ==
    NewEntry(findElements(<<>>, root, sel, options, limit))

(***************************************************************************)
(* index.ts: the positional resolver.  Every operator returns              *)
(*   res: the list the function returns,                                   *)
(*   log: the objects its findElements calls added to the compiled         *)
(*        selector cache, in call order.                                   *)
(* A function that is given a parsed selector returns with it              *)
(*   sel: the selector object it was given, as the call leaves it (the     *)
(*        arrays of the parser are shared by reference, so a push on one   *)
(*        is seen by whoever holds it),                                    *)
(*   stages: the evaluations the stages of the call made under an          *)
(*        options object, in call order, each with the rootFunc of that    *)
(*        object as the evaluation finds it.                               *)
(***************************************************************************)
Ret(res, log) == [res |-> res, log |-> log]

\* A result with the selector the call was given, as the call leaves it,
\* and the evaluations the call's stages made.
Leaving(r, sel, stages) == [res |-> r.res, log |-> r.log, sel |-> sel, stages |-> stages]

\* A result after the evaluations made before it.
AfterStages(stages, r) == [r EXCEPT !.stages = stages \o @]

\* A stage hands the list of its :not filter to filterParsed with options.
NotStage(token, options) ==
    IF token.name = "not"
    THEN <<[what |-> "not", result |-> <<>>, combinator |-> FALSE,
            rootFunc |-> options.rootFunc]>>
    ELSE <<>>

\* A stage whose filter left result evaluates the remaining selector under
\* rootFunc; combinator: the remaining selector has a combinator.
SuffixStage(result, combinator, rootFunc) ==
    <<[what |-> "suffix", result |-> result, combinator |-> combinator,
       rootFunc |-> rootFunc]>>

\* The first index at which isFilter holds (Array.prototype.findIndex).
FilterIndex(selector) ==
    CHOOSE i \in 1..Len(selector) :
        isFilter(selector[i]) /\ \A j \in 1..(i - 1) : ~isFilter(selector[j])

\* An array passed to find is pruned in place by removeSubsets; a rootFunc
\* that closes over the same array tests membership in the pruned array.
PrunedRootFunc(options, root, aliased) ==
    IF aliased /\ root.isArray /\ options.rootFunc.kind = "includes"
    THEN [options EXCEPT !.rootFunc = MemberOf(removeSubsets(root.nodes))]
    ELSE options

\* An index that is not wrapped when negative.
eqIndexUnwrapped(num, length) == num

\* The index :eq and :nth read, a negative one counted from the end.
eqIndex(num, length) == IF num < 0 THEN length + num ELSE num

\* The positions a loop that starts at 1 keeps.
evenPositionsFromOne(length) == {i \in 1..(length - 1) : i % 2 = 1}

\* The positions :even and :odd keep (0-based, as in the loops).
evenPositions(length) == {i \in 0..(length - 1) : i % 2 = 0}
oddPositions(length) == {i \in 0..(length - 1) : i % 2 = 1}

\* The elements at a set of positions, in the order of the list.
AtPositions(elems, positions) ==
    LET keep == SortedSeq(positions)
    IN  [k \in 1..Len(keep) |-> elems[keep[k] + 1]]

RECURSIVE filterByPosition(_, _, _, _)
RECURSIVE filterParsed(_, _, _)
RECURSIVE FilterLoop(_, _, _, _, _, _)
RECURSIVE filterBySelector(_, _, _)
RECURSIVE findFilterElements(_, _, _, _, _, _)

\* A result with the log of what was done before it put in front.
AfterLog(log, r) == Ret(r.res, log \o r.log)

\* elems without the elements of filtered; data is the :not token's list
\* as filterParsed leaves it.
WithoutMatched(elems, filtered) ==
    [res |-> SelectSeq(elems, LAMBDA e : ~Includes(filtered.res, e)),
     log |-> filtered.log, data |-> SelData(filtered.sel), stages |-> filtered.stages]

\* filterByPosition(filter, elems, data, options).
filterByPosition(filter, elems, data, options) ==
    LET num == parseInt(data)
        n == Len(elems)
    IN  CASE filter \in {"first", "lt"} -> Ret(elems, <<>>)
          [] filter = "last" -> Ret(IF n > 0 THEN <<elems[n]>> ELSE elems, <<>>)
          [] filter \in {"nth", "eq"} ->
                IF ~num.finite THEN Ret(<<>>, <<>>)
                ELSE LET index == eqIndex(num.val, n)
                     IN  Ret(IF index >= 0 /\ index < n THEN <<elems[index + 1]>> ELSE <<>>,
                             <<>>)
          [] filter = "gt" ->
                Ret(IF num.finite /\ num.val < n - 1 THEN SliceFrom(elems, num.val + 1) ELSE <<>>,
                    <<>>)
          [] filter = "even" ->
                Ret(AtPositions(elems, evenPositions(n)), <<>>)
          [] filter = "odd" ->
                Ret(AtPositions(elems, oddPositions(n)), <<>>)
          [] filter = "not" ->
                WithoutMatched(elems, filterParsed(data.sel, elems, options))
          [] OTHER -> Ret(<<>>, <<>>)

\* One turn of filterParsed's loop with what filterBySelector returned.
FilterLoopWith(filteredSelectors, i, found, elements, options, log, filtered) ==
    IF filtered.res = <<>>
    THEN AfterStages(filtered.stages,
             FilterLoop([filteredSelectors EXCEPT ![i] = filtered.sel], i + 1, found,
                        elements, options, log \o filtered.log))
    ELSE IF ~found.set /\ i = Len(filteredSelectors)
    THEN Leaving(Ret(filtered.res, log \o filtered.log),
                 [filteredSelectors EXCEPT ![i] = filtered.sel], filtered.stages)
    ELSE AfterStages(filtered.stages,
             FilterLoop([filteredSelectors EXCEPT ![i] = filtered.sel], i + 1,
                        [set |-> TRUE, els |-> found.els \cup Range(filtered.res)],
                        elements, options, log \o filtered.log))

\* filterParsed's loop over the filtered selectors, from index i on.  found
\* is [set, els]: the Set of the code, or undefined.  filteredSelectors
\* holds the selectors before i as filterBySelector left them.
FilterLoop(filteredSelectors, i, found, elements, options, log) ==
    LET final == IF found.set
                 THEN IF Cardinality(found.els) = Len(elements) THEN elements
                      ELSE SelectSeq(elements, LAMBDA el : el \in found.els)
                 ELSE <<>>
        missing == IF found.set
                   THEN SelectSeq(elements, LAMBDA e : isTag(e) /\ e \notin found.els)
                   ELSE elements
    IN  IF i > Len(filteredSelectors) \/ (found.set /\ Cardinality(found.els) = Len(elements))
        THEN Leaving(Ret(final, log), filteredSelectors, <<>>)
        ELSE IF missing = <<>> THEN Leaving(Ret(final, log), filteredSelectors, <<>>)
        ELSE FilterLoopWith(filteredSelectors, i, found, elements, options, log,
                            filterBySelector(filteredSelectors[i], elements, options))

\* The Set filterParsed starts its loop with: the elements the plain
\* selectors matched, or undefined when they matched none.
FoundOf(filtered) ==
    IF filtered # <<>> THEN [set |-> TRUE, els |-> Range(filtered)]
    ELSE [set |-> FALSE, els |-> {}]

\* The selector list whose filtered alternatives are, in their order, the
\* ones of filteredSelectors: groupSelectors puts the alternatives themselves
\* into its two lists, not copies of them.
Regroup(selector, filteredSelectors) ==
    [i \in 1..Len(selector) |->
        IF HasFilter(selector[i])
        THEN filteredSelectors[Cardinality({j \in 1..i : HasFilter(selector[j])})]
        ELSE selector[i]]

\* What filterParsed's loop returned, with the whole selector list.
Regrouped(selector, r) == Leaving(r, Regroup(selector, r.sel), r.stages)

\* filterParsed after groupSelectors.
filterParsedGrouped(selector, plainSelectors, filteredSelectors, elements, options) ==
    IF plainSelectors = <<>>
    THEN Regrouped(selector,
             FilterLoop(filteredSelectors, 1, FoundOf(<<>>), elements, options, <<>>))
    ELSE IF filteredSelectors = <<>>
    THEN Leaving(Ret(filterElements(NodeArray(elements), plainSelectors, options), <<>>),
                 selector, <<>>)
    ELSE Regrouped(selector,
             FilterLoop(filteredSelectors, 1,
                        FoundOf(filterElements(NodeArray(elements), plainSelectors, options)),
                        elements, options, <<>>))

\* filterParsed(selector, elements, options).
filterParsed(selector, elements, options) ==
    IF elements = <<>> THEN Leaving(Ret(<<>>, <<>>), selector, <<>>)
    ELSE filterParsedGrouped(selector, groupSelectors(selector).plain,
                             groupSelectors(selector).filtered, elements, options)

\* A list filterBySelector returns.
Returns(r) ==
    [res |-> r.res, log |-> r.log, threw |-> FALSE, sel |-> r.sel, stages |-> r.stages]

\* filterBySelector(selector, elements, options).  threw: reading .parent of
\* elements[0] when there is no first element raises a TypeError.  The scope
\* token is pushed onto the selector the function was given, which is the
\* array findFilterElements then works on.
filterBySelector(selector, elements, options) ==
    IF HasTraversal(selector)
    THEN IF options.root = NoNode /\ elements = <<>>
         THEN [res |-> <<>>, log |-> <<>>, threw |-> TRUE, sel |-> selector,
               stages |-> <<>>]
         ELSE Returns(findFilterElements(
                          OneNode(IF options.root # NoNode THEN options.root
                                  ELSE getDocumentRoot(elements[1])),
                          Append(selector, SCOPE_PSEUDO),
                          [options EXCEPT !.context = NodeArray(elements),
                                          !.relativeSelector = "false"],
                          TRUE, Len(elements), FALSE))
    ELSE Returns(findFilterElements(NodeArray(elements), selector, options, FALSE,
                                    Len(elements), FALSE))

\* What the recursive call returned, after the log of what was done before
\* it.  front is the selector up to the filter; the remaining selector is a
\* slice, whose universal token in front (leading) is not in the selector,
\* while its other tokens are the selector's own.
RejoinAfter(front, leading, log1, r) ==
    [res |-> r.res, log |-> log1 \o r.log,
     sel |-> front \o (IF leading THEN Tail(r.sel) ELSE r.sel),
     stages |-> r.stages]

\* Whether findFilterElements(root, selector, options, queryForSelector,
\* totalLimit) passes root to findElements, whose find prunes a root array in
\* place.
SearchesWith(selector, queryForSelector, totalLimit) ==
    /\ FilterIndex(selector) > 1
    /\ queryForSelector \/ HasTraversal(SubSeq(selector, 1, FilterIndex(selector) - 1))
    /\ getLimit(selector[FilterIndex(selector)].name, selector[FilterIndex(selector)].data,
                IF Len(selector) = FilterIndex(selector) THEN totalLimit ELSE Infinity) # 0

\* findFilterElements from the recursion on the remaining selector on
\* (lines 338-366), with result and the remaining selector as they are then.
findFilterRemaining(result, remainingSelector, remainingHasTraversal, opts1, totalLimit, log1, front, leading) ==
    LET opts2 == IF remainingHasTraversal
                 THEN [opts1 EXCEPT !.relativeSelector = "false",
                                    !.rootFunc = MemberOf(result)]
                 ELSE IF opts1.rootFunc.kind = "includes"
                 THEN [opts1 EXCEPT !.rootFunc = TrueFunc]
                 ELSE opts1
    IN  IF HasFilter(remainingSelector)
        THEN AfterStages(
                 SuffixStage(result, remainingHasTraversal,
                     IF SearchesWith(remainingSelector, FALSE, totalLimit)
                     THEN PrunedRootFunc(opts2, NodeArray(result),
                                         remainingHasTraversal).rootFunc
                     ELSE opts2.rootFunc),
                 RejoinAfter(front, leading, log1,
                     findFilterElements(NodeArray(result), remainingSelector, opts2, FALSE,
                                        totalLimit, remainingHasTraversal)))
        ELSE Leaving(
                 AfterLog(log1,
                     IF remainingHasTraversal
                     THEN findElementsNew(NodeArray(result), <<remainingSelector>>,
                                          PrunedRootFunc(opts2, NodeArray(result), TRUE),
                                          totalLimit)
                     ELSE Ret(filterElements(NodeArray(result), <<remainingSelector>>, opts2),
                              <<>>)),
                 front \o (IF leading THEN Tail(remainingSelector) ELSE remainingSelector),
                 SuffixStage(result, remainingHasTraversal,
                     IF remainingHasTraversal
                     THEN PrunedRootFunc(opts2, NodeArray(result), TRUE).rootFunc
                     ELSE opts2.rootFunc))

\* findFilterElements from the filter's result on (lines 308-336): the
\* result is returned when it is empty or the filter ends the selector;
\* otherwise a leading combinator gets the universal selector in front and,
\* for a sibling combinator, the result gets its next siblings.
findFilterFiltered(selector, filterIndex, opts1, totalLimit, log1, result) ==
    LET remainingSelector == SubSeq(selector, filterIndex + 1, Len(selector))
        remainingHasTraversal == HasTraversal(remainingSelector)
        leading == remainingHasTraversal /\ isTraversal(remainingSelector[1])
    IN  IF result = <<>> \/ Len(selector) = filterIndex
        THEN Leaving(Ret(result, log1), selector, <<>>)
        ELSE findFilterRemaining(
                 IF leading /\ remainingSelector[1].type \in {"sibling", "adjacent"}
                 THEN prepareContext(NodeArray(result), TRUE)
                 ELSE result,
                 IF leading THEN <<UNIVERSAL_SELECTOR>> \o remainingSelector
                 ELSE remainingSelector,
                 remainingHasTraversal, opts1, totalLimit, log1,
                 SubSeq(selector, 1, filterIndex), leading)

\* The filter token as filterByPosition leaves it: the list of a :not is
\* the token's data, and resolving it can change alternatives of the list.
FilterAfter(token, filtered) ==
    IF token.name = "not" THEN [token EXCEPT !.data = filtered.data] ELSE token

\* The evaluations filterByPosition made: those of filterParsed on the list
\* of a :not.
FilterStages(token, filtered) == IF token.name = "not" THEN filtered.stages ELSE <<>>

\* findFilterElements from the candidates on (lines 306-311): they are cut
\* to limit and filtered by position.
findFilterLimited(selector, filterIndex, opts1, totalLimit, log0, filtered) ==
    AfterStages(
        NotStage(selector[filterIndex], opts1) \o FilterStages(selector[filterIndex], filtered),
        findFilterFiltered([selector EXCEPT ![filterIndex] = FilterAfter(@, filtered)],
                           filterIndex, opts1, totalLimit,
                           log0 \o filtered.log, filtered.res))

findFilterCandidates(selector, filterIndex, opts1, totalLimit, limit, elemsNoLimit) ==
    findFilterLimited(selector, filterIndex, opts1, totalLimit, elemsNoLimit.log,
                      filterByPosition(selector[filterIndex].name,
                                       Slice(elemsNoLimit.res, 0, limit),
                                       selector[filterIndex].data, opts1))

\* findFilterElements with the filter's index and limit (lines 279-304):
\* nothing for a limit of 0; otherwise the candidates are the root's
\* element children or the root list when nothing stands before the filter,
\* the matches findElements finds when the selector is queried or has a
\* combinator, and the matching elements of the root list otherwise.
findFilterAt(root, selector, options, queryForSelector, totalLimit, aliased, filterIndex, limit) ==
    LET sub == SubSeq(selector, 1, filterIndex - 1)
        searches == sub # <<>> /\ (queryForSelector \/ HasTraversal(sub))
        opts1 == IF searches THEN PrunedRootFunc(options, root, aliased) ELSE options
    IN  IF limit = 0 THEN Leaving(Ret(<<>>, <<>>), selector, <<>>)
        ELSE findFilterCandidates(selector, filterIndex, opts1, totalLimit, limit,
                 IF sub = <<>> /\ ~root.isArray
                 THEN Ret(FilterTags(getChildren(root.nodes[1])), <<>>)
                 ELSE IF sub = <<>> THEN Ret(FilterTags(root.nodes), <<>>)
                 ELSE IF searches THEN findElementsNew(root, <<sub>>, opts1, limit)
                 ELSE Ret(filterElements(root, <<sub>>, options), <<>>))

\* The limit getLimit gives the filter at filterIndex.
LimitAt(selector, filterIndex, totalLimit) ==
    getLimit(selector[filterIndex].name, selector[filterIndex].data,
             IF Len(selector) = filterIndex THEN totalLimit ELSE Infinity)

\* findFilterElements(root, selector, options, queryForSelector, totalLimit).
\* aliased: options.rootFunc closes over the array that is root (the
\* recursive call passes result as the root and a closure over result).
findFilterElements(root, selector, options, queryForSelector, totalLimit, aliased) ==
    findFilterAt(root, selector, options, queryForSelector, totalLimit, aliased,
                 FilterIndex(selector), LimitAt(selector, FilterIndex(selector), totalLimit))

(***************************************************************************)
(* index.ts: the public operations.                                        *)
(***************************************************************************)
\* What find leaves of a root array it was given (removeSubsets prunes the
\* caller's array in place); a single node is left as it is.
RootAfterFind(root) == IF root.isArray THEN NodeArray(removeSubsets(root.nodes)) ELSE root

\* Whether findFilterElements(root, sel, ..., true, limit) passes root to find.
SearchesRoot(sel, limit) ==
    FilterIndex(sel) > 1 /\ LimitAt(sel, FilterIndex(sel), limit) # 0

\* A result put in front of the results of the selectors after it.
ConsResult(r, rest) ==
    [results |-> <<r.res>> \o rest.results, log |-> r.log \o rest.log, root |-> rest.root,
     stages |-> r.stages \o rest.stages]

RECURSIVE SelectFiltered(_, _, _, _, _)
\* filtered.map((sel) => findFilterElements(root, sel, options, true, limit)),
\* from index i on: [results, log, root], root being the root array as the
\* calls leave it.
SelectFiltered(filtered, i, root, options, limit) ==
    IF i > Len(filtered)
    THEN [results |-> <<>>, log |-> <<>>, root |-> root, stages |-> <<>>]
    ELSE ConsResult(findFilterElements(root, filtered[i], options, TRUE, limit, FALSE),
                    SelectFiltered(filtered, i + 1,
                                   IF SearchesRoot(filtered[i], limit) THEN RootAfterFind(root)
                                   ELSE root,
                                   options, limit))

\* select's return: nothing, the single list as it is, or the lists merged
\* by uniqueSort.
selectMerged(results, log) ==
    IF results = <<>> THEN Ret(<<>>, log)
    ELSE IF Len(results) = 1 THEN Ret(results[1], log)
    ELSE Ret(uniqueSort(Flatten(results)), log)

\* select with the plain selectors' result added to the filtered ones'.
selectWithPlain(f, p) == selectMerged(Append(f.results, p.res), f.log \o p.log)

\* What select returns, with the evaluations its findFilterElements calls
\* made.
Staged(r, stages) == [res |-> r.res, log |-> r.log, stages |-> stages]

\* select after the filtered selectors are resolved.
selectPlain(plain, f, options, limit) ==
    IF plain = <<>> THEN Staged(selectMerged(f.results, f.log), f.stages)
    ELSE Staged(selectWithPlain(f, findElementsNew(f.root, plain, options, limit)),
                f.stages)

\* select(selector, root, options, limit), for a selector given as text.
select(selector, root, options, limit) ==
    selectPlain(groupSelectors(selector).plain,
                SelectFiltered(groupSelectors(selector).filtered, 1, root, options, limit),
                options, limit)

\* filter(selector, elements, options).
filter(selector, elements, options) == filterParsed(selector, elements, options)

\* What some found later, with the log of what was done before it.
AfterSomeLog(log, rest) ==
    [bool |-> rest.bool, log |-> log \o rest.log, stages |-> rest.stages]

RECURSIVE SomeFiltered(_, _, _, _)
\* One turn of some's test of the filtered selectors, with what
\* filterBySelector returned.
SomeFilteredWith(filtered, i, elements, options, r) ==
    IF r.threw THEN [bool |-> "threw", log |-> <<>>, stages |-> <<>>]
    ELSE IF r.res # <<>> THEN [bool |-> "true", log |-> r.log, stages |-> r.stages]
    ELSE AfterStages(r.stages,
             AfterSomeLog(r.log, SomeFiltered(filtered, i + 1, elements, options)))

\* filtered.some((sel) => filterBySelector(sel, elements, options).length > 0),
\* from index i on: [bool, log], bool being "true", "false" or "threw".
SomeFiltered(filtered, i, elements, options) ==
    IF i > Len(filtered) THEN [bool |-> "false", log |-> <<>>, stages |-> <<>>]
    ELSE SomeFilteredWith(filtered, i, elements, options,
                          filterBySelector(filtered[i], elements, options))

\* some(elements, selector, options), for a selector given as text.
someCall(elements, selector, options) ==
    IF /\ groupSelectors(selector).plain # <<>>
       /\ \E i \in 1..Len(elements) :
            Query(compileToken(groupSelectors(selector).plain, options, NoContext),
                  elements[i])
    THEN [bool |-> "true", log |-> <<>>, stages |-> <<>>]
    ELSE SomeFiltered(groupSelectors(selector).filtered, 1, elements, options)
some(elements, selector, options) == someCall(elements, selector, options).bool
someLog(elements, selector, options) == someCall(elements, selector, options).log

\* is(element, selector, options).
is(element, selector, options) == some(<<element>>, selector, options)

(***************************************************************************)
(* The inputs of the calls.                                                *)
(***************************************************************************)
\* Result limits: 1..MaxLimit and Infinity (the default).
Limits == (1..MaxLimit) \cup {Infinity}

\* Simple selectors.
SimpleSelectors == {Tag("div"), Tag("p"), Tag("P"), ClassElement("x"), IdEquals("b"),
                    UNIVERSAL_SELECTOR}

\* Plain alternatives: a simple selector, or two joined by a combinator.
PlainAlternatives ==
    {<<t>> : t \in SimpleSelectors}
    \cup {<<Tag("div"), Traversal(c), Tag("p")>> : c \in {"descendant", "child"}}
    \cup {<<ClassElement("x"), Traversal(c), UNIVERSAL_SELECTOR>> : c \in {"sibling", "adjacent"}}

\* Arguments of the positional filters, as parseInt reads them.
Arguments == {NumData(n) : n \in {0, 1, 2, 7, -1, -2, -9}} \cup {NoData, TextData}

\* Nested selector lists of :not (each holds a positional filter).
NotLists ==
    {<< <<Pseudo("first", NoData)>> >>,
     << <<Tag("p"), Pseudo("last", NoData)>>, <<ClassElement("y")>> >>,
     << <<Tag("div"), Traversal("child"), Tag("p"), Pseudo("even", NoData)>> >>}

PositionalFilters ==
    {Pseudo(n, NoData) : n \in {"first", "last", "even", "odd"}}
    \cup {Pseudo("eq", d) : d \in Arguments}
    \cup {Pseudo("gt", NumData(k)) : k \in {0, -1, 7}}
    \cup {Pseudo("lt", NumData(1)), Pseudo("lt", NumData(-1)), Pseudo("nth", NumData(1))}
    \cup {Pseudo("not", SelData(s)) : s \in NotLists}

\* What stands before and after the first positional filter.
Prefixes == {<<>>, <<Tag("p")>>, <<UNIVERSAL_SELECTOR>>,
             <<Tag("div"), Traversal("child"), Tag("p")>>}
Suffixes ==
    {<<ClassElement("x")>>,
     <<Traversal("child"), Tag("p")>>,
     <<Traversal("sibling"), UNIVERSAL_SELECTOR>>,
     <<Pseudo("last", NoData), Traversal("adjacent"), Tag("p")>>,
     <<Traversal("child"), UNIVERSAL_SELECTOR,
       Pseudo("not", SelData(<< <<Tag("p"), Pseudo("first", NoData)>> >>))>>}

\* Alternatives with a positional filter: one that ends in its filter, or a
\* filter with a selector after it.
FilteredAlternatives ==
    {p \o <<f>> : p \in Prefixes, f \in PositionalFilters}
    \cup {p \o <<Pseudo(n, NoData)>> \o x : p \in {<<>>, <<Tag("p")>>},
                                           n \in {"first", "even"}, x \in Suffixes}

\* Parsed selector groups: one alternative, or a plain and a filtered one.
SelectorGroups ==
    {<<a>> : a \in PlainAlternatives \cup FilteredAlternatives}
    \cup {<<a, b>> : a \in {<<Tag("div")>>, <<ClassElement("x")>>},
                     b \in {<<Tag("p"), Pseudo("first", NoData)>>,
                            <<Tag("p"), Pseudo("gt", NumData(0))>>,
                            <<Pseudo("last", NoData)>>}}
    \cup {<< <<Tag("p"), Pseudo("first", NoData)>>, <<Tag("p"), Pseudo("last", NoData)>> >>,
          << <<Tag("div")>>, <<Tag("p")>> >>}

\* Node lists given as a root or as candidates: empty, single, in and out of
\* document order, nested, with a duplicate, with a text node.
NodeLists == {<<>>, <<4>>, <<8, 1>>, <<2, 2>>, <<2, 6, 7>>, <<7, 6, 2>>, <<1, 2, 3, 4>>}
ElementLists == {s \in NodeLists : \A i \in 1..Len(s) : isTag(s[i])}
Roots == {OneNode(n) : n \in {0, 1, 4}} \cup {NodeArray(s) : s \in NodeLists}

\* Options a caller passes: the defaults, or xmlMode.
CallerOptions == {DefaultOptions, [DefaultOptions EXCEPT !.xmlMode = TRUE]}

(***************************************************************************)
(* The state machine of one call: of the public interface, or of the       *)
(* resolver on one parsed alternative.                                     *)
(***************************************************************************)
NoList == <<>>
Call(op, selector, root, elements, options, limit) ==
    [op |-> op, selector |-> selector, root |-> root, elements |-> elements,
     options |-> options, limit |-> limit]
NoCall == Call("none", <<>>, NoContext, NoList, DefaultOptions, Infinity)
\* What a call returned.  sel: for a call of the resolver on a parsed
\* alternative, the alternative as the call left it (the exported operations
\* parse their selector themselves and hand the parsed object to nobody).
\* stages: the evaluations the stages of the call's positional resolution
\* made.
Returned(res, bool) == [res |-> res, bool |-> bool, sel |-> <<>>, stages |-> <<>>]

Init ==
    /\ pc = "idle"
    /\ call = NoCall
    /\ returned = Returned(<<>>, "none")
    /\ compiledSelectorCache = <<>>
    /\ matchResultCache = <<>>
    /\ relationshipCache = <<>>

\* A call returns: what it returned is recorded, and the selector groups
\* its searches compiled are in the compiled selector cache.
Return(c, ret, log) ==
    /\ pc' = "done"
    /\ call' = c
    /\ returned' = ret
    /\ compiledSelectorCache' = compiledSelectorCache \o log
    /\ UNCHANGED <<matchResultCache, relationshipCache>>

ReturnList(c, r) == Return(c, [Returned(r.res, "none") EXCEPT !.stages = r.stages], r.log)
ReturnBool(c, r) == Return(c, [Returned(<<>>, r.bool) EXCEPT !.stages = r.stages], r.log)

\* select(selector, root, options, limit).
Select ==
    /\ pc = "idle"
    /\ \E selector \in SelectorGroups, root \in Roots, options \in CallerOptions, limit \in Limits :
        ReturnList(Call("select", selector, root, NoList, options, limit),
                   select(selector, root, options, limit))

\* filter(selector, elements, options).
Filter ==
    /\ pc = "idle"
    /\ \E selector \in SelectorGroups, elements \in NodeLists, options \in CallerOptions :
        ReturnList(Call("filter", selector, NoContext, elements, options, Infinity),
                   filter(selector, elements, options))

\* some(elements, selector, options).  The call raises before any search
\* when it returns "threw"; otherwise the searches it makes add to the cache.
Some ==
    /\ pc = "idle"
    /\ \E selector \in SelectorGroups, elements \in ElementLists :
        ReturnBool(Call("some", selector, NoContext, elements, DefaultOptions, Infinity),
                   someCall(elements, selector, DefaultOptions))

\* A call of the resolver on the alternative selector returns r.
ReturnResolved(c, r, bool) ==
    Return(c, [Returned(r.res, bool) EXCEPT !.sel = <<r.sel>>, !.stages = r.stages], r.log)

\* filterBySelector(selector, elements, options), as filterParsed and some
\* call it on an alternative with a positional filter.
FilterBySelectorReturns(c, r) ==
    ReturnResolved(c, r, IF r.threw THEN "threw" ELSE "none")

FilterBySelector ==
    /\ pc = "idle"
    /\ \E selector \in FilteredAlternatives, elements \in NodeLists :
        FilterBySelectorReturns(
            Call("filterBySelector", <<selector>>, NoContext, elements, DefaultOptions,
                 Len(elements)),
            filterBySelector(selector, elements, DefaultOptions))

\* findFilterElements(root, selector, options, true, limit), as select calls
\* it on an alternative with a positional filter.
FindFilterElements ==
    /\ pc = "idle"
    /\ \E selector \in FilteredAlternatives, root \in Roots, limit \in Limits :
        ReturnResolved(
            Call("findFilterElements", <<selector>>, root, NoList, DefaultOptions, limit),
            findFilterElements(root, selector, DefaultOptions, TRUE, limit, FALSE),
            "none")

Next == Select \/ Filter \/ Some \/ FilterBySelector \/ FindFilterElements

Spec == Init /\ [][Next]_vars

(***************************************************************************)
(* cache.ts: the match result cache, and the caches across lookups.        *)
(***************************************************************************)
MAX_MATCH_CACHE_SIZE == 10000

\* getMatchCacheKey(selector, element).
getMatchCacheKey(selector, element) ==
    LET id == NodeId[element + 1]
        elementKey == NodeType[element + 1] \o "_" \o NodeName[element + 1] \o "_" \o id
    IN  selector \o "|" \o elementKey

\* Map.prototype.set on an insertion-ordered map of [key, value] entries.
MapSet(map, key, value) ==
    IF \E i \in 1..Len(map) : map[i].key = key
    THEN [i \in 1..Len(map) |-> IF map[i].key = key THEN [key |-> key, value |-> value]
                                ELSE map[i]]
    ELSE Append(map, [key |-> key, value |-> value])

\* An insertion that never makes room.
addToMatchCacheUnbounded(map, key, value) == MapSet(map, key, value)

\* addToMatchCache(key, value) on the match result cache map.  The loop
\* takes the first entriesToDelete keys of the map's iterator and deletes
\* each that is truthy: an entry whose key is the empty string stays.
addToMatchCache(map, key, value) ==
    LET entriesToDelete == MAX_MATCH_CACHE_SIZE \div 2
        visited == Min(entriesToDelete, Len(map))
        kept == IF Len(map) >= MAX_MATCH_CACHE_SIZE
                THEN SelectSeq(SubSeq(map, 1, visited), LAMBDA e : e.key = "")
                     \o SliceFrom(map, visited)
                ELSE map
    IN  MapSet(kept, key, value)

\* The three caches of cache.ts as one record.
Caches(compiled, match, relationship) ==
    [compiledSelectorCache |-> compiled, matchResultCache |-> match,
     relationshipCache |-> relationship]

\* A reset that drops every cache.
clearAllCaches(caches) == Caches(<<>>, <<>>, <<>>)

\* clearCaches().
clearCaches(caches) == [caches EXCEPT !.matchResultCache = <<>>]

\* The selector groups, roots and options of the lookups.
LookupSelectors == {<<<<Tag("p")>>>>}
LookupRoots == {NodeArray(<<1>>), NodeArray(<<4>>)}
LookupOptions == {DefaultOptions, [DefaultOptions EXCEPT !.xmlMode = TRUE],
                  [DefaultOptions EXCEPT !.rootFunc = MemberOf(<<4>>)]}
LookupLimits == {Infinity}
MatchKeys == {getMatchCacheKey("p", el) : el \in {1, 5}}

\* A findElements call on the object obj returns r: the cache holds the
\* object with the map the call left, unless a fast path answered.
LookupReturns(obj, held, sel, root, options, limit, r) ==
    /\ call' = Call("findElements", sel, root, NoList, options, limit)
    /\ returned' = Returned(r.res, "none")
    /\ compiledSelectorCache' =
           IF ~r.general THEN compiledSelectorCache
           ELSE IF held
           THEN [compiledSelectorCache EXCEPT ![obj] = [sel |-> r.sel, map |-> r.map]]
           ELSE Append(compiledSelectorCache, [sel |-> r.sel, map |-> r.map])
    /\ UNCHANGED <<pc, matchResultCache, relationshipCache>>

\* findElements(root, sel, options, limit) on a selector-group object: one
\* the compiled selector cache holds (obj is its place in the cache), or a
\* new one.
Lookup ==
    /\ pc = "idle"
    /\ \E obj \in 1..Min(Len(compiledSelectorCache) + 1, MaxSelObjects),
          content \in LookupSelectors, root \in LookupRoots,
          options \in LookupOptions, limit \in LookupLimits :
        LET held == obj <= Len(compiledSelectorCache)
            sel == IF held THEN compiledSelectorCache[obj].sel ELSE content
            cacheMap == IF held THEN compiledSelectorCache[obj].map ELSE <<>>
        IN  /\ held => content = sel
            /\ LookupReturns(obj, held, sel, root, options, limit,
                             findElements(cacheMap, root, sel, options, limit))

\* The call addToMatchCache(key, value).
AddCall(key, value) ==
    Call("addToMatchCache", <<>>, NoContext, NoList, DefaultOptions, Infinity)
        @@ [key |-> key, value |-> value]

\* addToMatchCache(key, value) with a key of keys and a value of values.
AddToMatchCacheOf(keys, values) ==
    /\ pc = "idle"
    /\ \E key \in keys, value \in values :
        /\ call' = AddCall(key, value)
        /\ returned' = Returned(<<>>, "none")
        /\ matchResultCache' = addToMatchCache(matchResultCache, key, value)
        /\ UNCHANGED <<pc, compiledSelectorCache, relationshipCache>>

\* addToMatchCache(key, value).
AddToMatchCache == AddToMatchCacheOf(MatchKeys, BOOLEAN)

\* clearCaches().
ClearCaches ==
    /\ pc = "idle"
    /\ LET after == clearCaches(Caches(compiledSelectorCache, matchResultCache,
                                       relationshipCache))
       IN  /\ call' = Call("clearCaches", <<>>, NoContext, NoList, DefaultOptions, Infinity)
           /\ returned' = Returned(<<>>, "none")
           /\ compiledSelectorCache' = after.compiledSelectorCache
           /\ matchResultCache' = after.matchResultCache
           /\ relationshipCache' = after.relationshipCache
           /\ UNCHANGED pc

NextCache == Lookup \/ AddToMatchCache \/ ClearCaches

SpecCache == Init /\ [][NextCache]_vars

(***************************************************************************)
(* cache.ts: the match result cache near its capacity.  The cache is taken *)
(* up after insertions of distinct keys since the module was loaded.       *)
(***************************************************************************)
\* The key of the n-th selector text and the element div#a.
KeyOf(n) == getMatchCacheKey(ToString(n), 1)

\* The match result cache after addToMatchCache(first, TRUE) and then
\* addToMatchCache(KeyOf(i), TRUE) for i = 2..n, n being at most the capacity.
FilledMatchCache(first, n) ==
    [i \in 1..n |-> [key |-> IF i = 1 THEN first ELSE KeyOf(i), value |-> TRUE]]

\* The sizes the cache is taken up at: empty, one below capacity, at capacity.
FilledSizes == {0, MAX_MATCH_CACHE_SIZE - 1, MAX_MATCH_CACHE_SIZE}

\* The keys of the insertions: the empty string, the oldest key of a cache
\* at capacity, and a key no such cache holds.
FilledKeys == {"", KeyOf(1), KeyOf(MAX_MATCH_CACHE_SIZE + 1)}

InitMatchCache ==
    /\ pc = "idle"
    /\ call = NoCall
    /\ returned = Returned(<<>>, "none")
    /\ compiledSelectorCache = <<>>
    /\ matchResultCache \in {FilledMatchCache(first, n) : first \in {"", KeyOf(1)},
                                                         n \in FilledSizes}
    /\ relationshipCache = <<>>

\* addToMatchCache(key, false) on a cache that may be at capacity (the
\* entries the cache is taken up with hold true).
AddToFilledMatchCache == AddToMatchCacheOf(FilledKeys, {FALSE})

NextMatchCache == AddToFilledMatchCache \/ ClearCaches

SpecMatchCache == InitMatchCache /\ [][NextMatchCache]_vars
(***************************************************************************)
(* Properties.                                                             *)
(***************************************************************************)
\* No node twice and in document order: the node numbers increase strictly.
InDocumentOrder(s) == \A i, j \in 1..Len(s) : i < j => s[i] < s[j]

RECURSIVE IsSubsequence(_, _)
\* s can be obtained from t by deleting elements.
IsSubsequence(s, t) ==
    IF s = <<>> THEN TRUE
    ELSE IF t = <<>> THEN FALSE
    ELSE IF Head(s) = Head(t) THEN IsSubsequence(Tail(s), Tail(t))
    ELSE IsSubsequence(s, Tail(t))

Done(op) == pc = "done" /\ call.op = op

\* C1: select returns no node twice and returns its results in document
\* order, whether one result list is returned directly or several are merged.
C1_SelectUniqueInDocumentOrder == Done("select") => InDocumentOrder(returned.res)

\* C2: filter(sel, nodes) is a subsequence of nodes, for candidates in any
\* order and for any selector.
C2_FilterIsSubsequence == Done("filter") => IsSubsequence(returned.res, call.elements)

\* C3: select with a finite limit L returns at most L elements.
C3_SelectWithinLimit == Done("select") => Len(returned.res) <= call.limit

\* The selector groups the fast paths take: one alternative of one simple
\* selector that is id-equals, class-token or tag-name.
IsSimpleGroup(selector) ==
    \/ isSimpleIdSelector(selector) # ""
    \/ isSimpleClassSelector(selector) # ""
    \/ isSimpleTagSelector(selector) # ""

\* C4: for a single-node root and a simple selector, the fast path returns
\* the list the general path (compile, then find over the prepared context
\* of the root) returns.
C4_FastPathEqualsGeneralPath ==
    (Done("select") /\ ~call.root.isArray /\ IsSimpleGroup(call.selector))
        => returned.res = findElementsGeneral(<<>>, call.root, call.selector,
                                              call.options, call.limit).res

\* The one alternative of the call's selector, what stands before its last
\* token, and the last token.
TheAlternative == call.selector[1]
Front == SubSeq(TheAlternative, 1, Len(TheAlternative) - 1)
LastToken == TheAlternative[Len(TheAlternative)]
EndsWith(names) ==
    /\ Len(call.selector) = 1
    /\ TheAlternative # <<>>
    /\ LastToken.type = "pseudo"
    /\ LastToken.name \in names

\* The candidate list the last token of the call's selector is applied to:
\* the element children of a single root (the elements of a root list, the
\* elements among the nodes to filter) when nothing stands before it, and
\* otherwise what the selector before it resolves to, without a limit.
Candidates ==
    IF call.op = "select"
    THEN IF Front # <<>> THEN select(<<Front>>, call.root, call.options, Infinity).res
         ELSE IF call.root.isArray THEN FilterTags(call.root.nodes)
         ELSE FilterTags(getChildren(call.root.nodes[1]))
    ELSE IF Front # <<>> THEN filter(<<Front>>, call.elements, call.options).res
         ELSE FilterTags(call.elements)

\* The call's selector with its last token replaced, resolved as the call was.
ResolvedWith(token) ==
    IF call.op = "select"
    THEN select(<<Append(Front, token)>>, call.root, call.options, call.limit).res
    ELSE filter(<<Append(Front, token)>>, call.elements, call.options).res

\* A call whose last token is a positional filter applied to a candidate
\* list: a select without a limit, or a filter whose selector has no
\* combinator (one with a combinator is resolved from the document root).
AppliesLast(names) ==
    /\ pc = "done"
    /\ EndsWith(names)
    /\ \/ call.op = "select" /\ call.limit = Infinity
       \/ call.op = "filter" /\ ~HasTraversal(TheAlternative)

\* C6: :not(S) over the candidates C returns C minus filter(S, C), in C's order.
C6_NotIsComplementOfFilter ==
    (AppliesLast({"not"}) /\ isFilter(LastToken)) =>
        LET C == Candidates
            matched == filter(LastToken.data.sel, C, call.options).res
        IN  returned.res = SelectSeq(C, LAMBDA e : ~Includes(matched, e))

\* What :eq(n) is to return of a candidate list.
EqOf(C, data) ==
    LET num == parseInt(data)
        count == Len(C)
    IN  IF ~num.finite THEN <<>>
        ELSE IF 0 <= num.val /\ num.val < count THEN <<C[num.val + 1]>>
        ELSE IF num.val < 0 /\ count + num.val >= 0 THEN <<C[count + num.val + 1]>>
        ELSE <<>>

\* A call whose selector is a filter-free prefix followed by :eq or :nth.
EqCall ==
    /\ pc = "done"
    /\ call.op \in {"select", "filter"}
    /\ EndsWith({"eq", "nth"})
    /\ ~HasFilter(Front)
    /\ call.op = "filter" => ~HasTraversal(Front)

\* C7: :eq(n) and :nth(n) over count candidates return the candidate at the
\* zero-based index n, at index count + n for a negative n, and the empty
\* list when that index is out of range.
C7_EqIsZeroBasedIndex == EqCall => returned.res = EqOf(Candidates, LastToken.data)

C7_Witness ==
    /\ EqCall
    /\ LastToken.data = NumData(-2)
    /\ Len(Candidates) >= 3
    /\ returned.res = <<Candidates[Len(Candidates) - 1]>>

\* The :even and the :odd result of the candidates of a call that ends in one
\* of the two: the one the call returned, the other resolved the same way.
EvenResult == IF LastToken.name = "even" THEN returned.res ELSE ResolvedWith(Pseudo("even", NoData))
OddResult == IF LastToken.name = "odd" THEN returned.res ELSE ResolvedWith(Pseudo("odd", NoData))

\* E and O taken alternately, E first, give back C.
Interleaves(E, O, C) ==
    /\ Len(E) + Len(O) = Len(C)
    /\ Len(E) \in {Len(O), Len(O) + 1}
    /\ \A k \in 1..Len(C) : C[k] = IF k % 2 = 1 THEN E[(k + 1) \div 2] ELSE O[k \div 2]

NoRepeats(s) == \A i, j \in 1..Len(s) : i # j => s[i] # s[j]

EvenOddCall == AppliesLast({"even", "odd"}) /\ ~HasFilter(Front)

\* C8 as stated: the :even and :odd results share no node, each is a
\* subsequence of the candidates, and together they give back the candidates.
C8_EvenOddDisjoint ==
    EvenOddCall =>
        /\ Range(EvenResult) \cap Range(OddResult) = {}
        /\ IsSubsequence(EvenResult, Candidates)
        /\ IsSubsequence(OddResult, Candidates)
        /\ Interleaves(EvenResult, OddResult, Candidates)

\* C8, amended: the :even and :odd results are the candidates at the even
\* and at the odd positions, so each is a subsequence of the candidates and
\* taken alternately they give back the candidates; they share no node when
\* no node occurs twice among the candidates.
C8_EvenOddPartitionPositions ==
    EvenOddCall =>
        /\ NoRepeats(Candidates) => Range(EvenResult) \cap Range(OddResult) = {}
        /\ IsSubsequence(EvenResult, Candidates)
        /\ IsSubsequence(OddResult, Candidates)
        /\ Interleaves(EvenResult, OddResult, Candidates)

C8_Witness ==
    /\ EvenOddCall
    /\ LastToken.name = "even"
    /\ Len(Candidates) = 3
    /\ NoRepeats(Candidates)
    /\ Len(returned.res) = 2

\* C9: an empty candidate list or an empty root list never raises an error:
\* filter and select return the empty list and some returns false.
C9_EmptyInputNeverRaises ==
    /\ (Done("filter") /\ call.elements = <<>>) => returned.res = <<>>
    /\ (Done("select") /\ call.root = NodeArray(<<>>)) => returned.res = <<>>
    /\ (Done("some") /\ call.elements = <<>>) => returned.bool = "false"

Resolved == pc = "done" /\ call.op \in {"filterBySelector", "findFilterElements"}
C11_ResolvingLeavesAlternative == Resolved => returned.sel = call.selector

\* C12: in every stage of positional resolution the rootFunc in effect when
\* the remaining selector is evaluated is membership in the stage's own
\* filtered result (with the following siblings for a leading sibling or
\* adjacent combinator) when the remaining selector has a combinator, and
\* accepts everything when it has none; and no rootFunc a stage installed is
\* in effect when the list of a :not is resolved.
AcceptsEverything(rootFunc) == rootFunc.kind # "includes"
MembershipIn(rootFunc, result) ==
    rootFunc.kind = "includes" /\ Range(rootFunc.nodes) = Range(result)
StageHolds(stage) ==
    IF stage.what = "not" THEN AcceptsEverything(stage.rootFunc)
    ELSE IF stage.combinator THEN MembershipIn(stage.rootFunc, stage.result)
    ELSE AcceptsEverything(stage.rootFunc)
C12_RootFuncIsOfTheStage ==
    (pc = "done" /\ call.op \in {"select", "filter", "some"}) =>
        \A i \in 1..Len(returned.stages) : StageHolds(returned.stages[i])

\* C13: after any sequence of addToMatchCache and clearCaches calls the match
\* result cache holds at most MAX_MATCH_CACHE_SIZE entries; an insertion that
\* arrives when the cache is at capacity removes the oldest
\* floor(capacity / 2) entries, by insertion order, and then stores the new
\* entry, which is in the cache afterwards.
AtCapacity(map) == Len(map) >= MAX_MATCH_CACHE_SIZE
WithoutOldestHalf(map) == SubSeq(map, MAX_MATCH_CACHE_SIZE \div 2 + 1, Len(map))
Others(map, key) == SelectSeq(map, LAMBDA e : e.key # key)
Stored(map, key, value) ==
    Cardinality({i \in 1..Len(map) : map[i].key = key}) = 1
    /\ \E i \in 1..Len(map) : map[i] = [key |-> key, value |-> value]
Insertion == call'.op = "addToMatchCache"
OldestHalfTruthy(map) ==
    \A i \in 1..(MAX_MATCH_CACHE_SIZE \div 2) : i <= Len(map) => map[i].key # ""
====
